---- MODULE Spec2Model ----
(***************************************************************************)
(* A model of klexikon_crawler: the sentence segmenter, the tree sanitizer *)
(* and content extractor of crawler.py, the TOC parser of                  *)
(* crawler_wikijunior.py, the pagination walker of                         *)
(* crawler_projekt_gutenberg.py and the worker-pool crawls of              *)
(* crawler_klexikon.py / crawler_miniklexikon.py.                          *)
(*                                                                         *)
(* Text is a sequence of one-character strings, so that strip(), the       *)
(* regular expression of split_into_sentences and get_text can be computed *)
(* character by character.                                                 *)
(***************************************************************************)
EXTENDS Integers, Sequences, FiniteSets, TLC

VARIABLES
    \* ---- split_into_sentences round trip (crawler.py:88-94)
    paragraph,        \* the text handed to split_into_sentences
    sentences,        \* its result
    first_sentences,  \* the result of the first segmentation, kept for the round trip
    seg_pc,           \* "input" | "split" | "rejoined" | "resplit"
    \* ---- tree sanitizer and content extractor (crawler.py:25-85)
    soup,             \* the parsed document, mutated in place by the remove_* functions
    before,           \* the document as it was before the last call
    content,          \* the list extract_content returned
    dom_op,           \* the function called last
    \* ---- parse_links (crawler_wikijunior.py:32-66)
    list_element,     \* the <ul>/<ol> handed to parse_links
    links,            \* the list of link_info dictionaries it returned
    toc_pc,           \* "input" | "parsed"
    \* ---- crawl_wikijunior_toc (crawler_wikijunior.py:68-99)
    toc_soup,         \* the parsed TOC page
    chapters,         \* the list of chapters crawl_wikijunior_toc returned
    list_tags,        \* for each returned chapter, its header_div and the list_tag it read
    chap_pc,          \* "input" | "returned" | "failed" (get_soup gave None)
    \* ---- crawl_projekt_gutenberg (crawler_projekt_gutenberg.py)
    web,              \* the site: for each page path, its "weiter" candidate links
    index_books,      \* the book links the Lesetips page lists
    g_pc,             \* position in crawl_projekt_gutenberg
    books,            \* the list crawl_lesetips returned
    idx,              \* the loop index of crawl_projekt_gutenberg (from 1)
    records,          \* the records appended so far
    current_url,      \* fetch_book_content: the page to fetch next
    content_blocks,   \* fetch_book_content: the accumulated page texts
    w_pc,             \* fetch_book_content: "fetch" | "extract" | "advance" | "Done" | "Failed"
    requests,         \* the get_soup calls made so far: book index, url, outcome
    full_text,        \* what the last call of fetch_book_content returned
    \* ---- crawl_klexikon / crawl_miniklexikon
    site,             \* "klexikon" | "miniklexikon": which crawler main() runs
    category_pages,   \* the chain of category pages of the site
    max_pages,        \* --max_pages (NoLimit for None)
    max_workers,      \* --max_workers
    wiki_pc,          \* "listing" | "submit" | "pool" | "finished" | "crashed"
    page_no,          \* which category page current_url points at
    page_count,       \* the counter of the listing loop
    all_article_urls, \* the article URLs gathered, in page order
    futures,          \* the futures of the pool, in submission order: url, state, whether
                      \* get_soup gave a page, the result, the position it was collected at
    data_records,     \* the results collected from as_completed, in collection order
    df,               \* the DataFrame returned
    \* ---- crawl_wikijunior_toc_and_content, as main() runs it through crawl_wikijunior
    cli_max_workers,  \* --max_workers as main() parsed it
    toc_page,         \* the TOC page of the book
    book_title,       \* the text of its <title>, or "Unknown"
    toc_structure,    \* what crawl_wikijunior_toc returned
    tasks,            \* the tasks list, in submission order: chapter, link text, url,
                      \* the state of the future and the paragraphs it holds
    results,          \* the result records appended so far
    junior_df,        \* the DataFrame returned
    j_pc              \* "title" | "toc" | "submit" | "pool" | "finished"

segVars == <<paragraph, sentences, first_sentences, seg_pc>>
domVars == <<soup, before, content, dom_op>>

tocVars == <<list_element, links, toc_pc>>

chapVars == <<toc_soup, chapters, list_tags, chap_pc>>

gutVars == <<web, index_books, g_pc, books, idx, records, current_url, content_blocks,
             w_pc, requests, full_text>>

wikiVars == <<site, category_pages, max_pages, max_workers, wiki_pc, page_no, page_count,
              all_article_urls, futures, data_records, df>>

juniorVars == <<cli_max_workers, toc_page, book_title, toc_structure, tasks, results,
                junior_df, j_pc>>

vars == <<segVars, domVars, tocVars, chapVars, gutVars, wikiVars, juniorVars>>

\* what the actions of one component leave alone
notSeg == <<domVars, tocVars, chapVars, gutVars, wikiVars, juniorVars>>
notDom == <<segVars, tocVars, chapVars, gutVars, wikiVars, juniorVars>>
notToc == <<segVars, domVars, chapVars, gutVars, wikiVars, juniorVars>>
notChap == <<segVars, domVars, tocVars, gutVars, wikiVars, juniorVars>>
notGut == <<segVars, domVars, tocVars, chapVars, wikiVars, juniorVars>>
notWiki == <<segVars, domVars, tocVars, chapVars, gutVars, juniorVars>>
notJunior == <<segVars, domVars, tocVars, chapVars, gutVars, wikiVars>>

----------------------------------------------------------------------------
(* Bounds *)

MaxTextLen == 5

\* the number of direct children of a main content container
MaxKids == 2

\* the number of <li> elements of a TOC list, over all nesting depths
MaxLis == 3

\* the number of children of the container of a TOC page
MaxSibs == 3

\* the number of pages of the Projekt Gutenberg site
NumPages == 2

\* the largest --max_pages and --max_workers tried
MaxPagesArg == 2
MaxWorkersArg == 2

----------------------------------------------------------------------------
(* Characters and strings *)

\* re: the class [.?!] of the pattern in split_into_sentences
Terminators == {".", "?", "!"}

\* re: \s, and the characters str.strip() removes
WhitespaceChars == {" ", "\n"}

\* the characters the enumerated input texts are made of
Alphabet == {"a", ".", "?", " "}

RECURSIVE SeqsUpTo(_, _)
SeqsUpTo(S, n) ==
    IF n = 0 THEN {<<>>}
    ELSE LET shorter == SeqsUpTo(S, n - 1)
         IN  shorter \cup {Append(s, x) : s \in {t \in shorter : Len(t) = n - 1}, x \in S}

\* str.strip(): drop leading and trailing whitespace
RECURSIVE lstrip(_)
lstrip(s) ==
    IF s # <<>> /\ Head(s) \in WhitespaceChars THEN lstrip(Tail(s)) ELSE s

RECURSIVE rstrip(_)
rstrip(s) ==
    IF s # <<>> /\ s[Len(s)] \in WhitespaceChars
    THEN rstrip(SubSeq(s, 1, Len(s) - 1)) ELSE s

strip(s) == rstrip(lstrip(s))

----------------------------------------------------------------------------
(* split_into_sentences: re.split(r'[.?!]+(?:\s+|$)', paragraph) *)

\* first index >= i of t that is not in the class S (Len(t)+1 when there is none)
RECURSIVE SkipRun(_, _, _)
SkipRun(t, i, S) ==
    IF i <= Len(t) /\ t[i] \in S THEN SkipRun(t, i + 1, S) ELSE i

\* without the "$" alternative: a terminator run must be followed by whitespace
MatchesAt_NoEnd(t, i) ==
    /\ i <= Len(t)
    /\ t[i] \in Terminators
    /\ LET j == SkipRun(t, i, Terminators)
       IN  j <= Len(t) /\ t[j] \in WhitespaceChars

\* The pattern matches at i iff t[i] starts a match of [.?!]+ whose greedy run
\* is followed by whitespace or by the end of the string (a shorter run is
\* followed by a terminator, so backtracking never helps).
MatchesAt(t, i) ==
    /\ i <= Len(t)
    /\ t[i] \in Terminators
    /\ LET j == SkipRun(t, i, Terminators)
       IN  j > Len(t) \/ t[j] \in WhitespaceChars

\* the index after the match that starts at i
MatchEnd(t, i) == SkipRun(t, SkipRun(t, i, Terminators), WhitespaceChars)

\* re.split: the pieces between the leftmost non-overlapping matches
RECURSIVE re_split(_, _, _)
re_split(t, i, cur) ==
    IF i > Len(t) THEN <<cur>>
    ELSE IF MatchesAt(t, i) THEN <<cur>> \o re_split(t, MatchEnd(t, i), <<>>)
    ELSE re_split(t, i + 1, Append(cur, t[i]))

RECURSIVE StripNonEmpty(_)
StripNonEmpty(pieces) ==
    IF pieces = <<>> THEN <<>>
    ELSE LET s == strip(Head(pieces))
         IN  (IF s # <<>> THEN <<s>> ELSE <<>>) \o StripNonEmpty(Tail(pieces))

split_into_sentences(text) == StripNonEmpty(re_split(text, 1, <<>>))

\* s1 t1 w s2 t2 w ... sn tn
RECURSIVE Rejoin(_, _, _)
Rejoin(ss, terms, w) ==
    IF ss = <<>> THEN <<>>
    ELSE Head(ss) \o <<Head(terms)>>
         \o (IF Len(ss) > 1 THEN <<w>> ELSE <<>>)
         \o Rejoin(Tail(ss), Tail(terms), w)

SegInit ==
    /\ paragraph \in SeqsUpTo(Alphabet, MaxTextLen)
    /\ sentences = <<>>
    /\ first_sentences = <<>>
    /\ seg_pc = "input"

SegIdle ==
    /\ paragraph = <<>>
    /\ sentences = <<>>
    /\ first_sentences = <<>>
    /\ seg_pc = "idle"

\* the first call of split_into_sentences
SegSplit ==
    /\ seg_pc = "input"
    /\ sentences' = split_into_sentences(paragraph)
    /\ seg_pc' = "split"
    /\ UNCHANGED <<paragraph, first_sentences>>
    /\ UNCHANGED notSeg

\* the caller joins the sentences again, each with a terminator
SegRejoin ==
    /\ seg_pc = "split"
    /\ \E terms \in [1..Len(sentences) -> Terminators], w \in WhitespaceChars :
          paragraph' = Rejoin(sentences, terms, w)
    /\ first_sentences' = sentences
    /\ seg_pc' = "rejoined"
    /\ UNCHANGED sentences
    /\ UNCHANGED notSeg

\* the second call of split_into_sentences
SegResplit ==
    /\ seg_pc = "rejoined"
    /\ sentences' = split_into_sentences(paragraph)
    /\ seg_pc' = "resplit"
    /\ UNCHANGED <<paragraph, first_sentences>>
    /\ UNCHANGED notSeg

SegNext == SegSplit \/ SegRejoin \/ SegResplit

----------------------------------------------------------------------------
(* The parsed document (BeautifulSoup): a tree of tags and strings *)

\* a URL or an href: the part before '#' and the fragment ("" when there is none)
Url(path, frag) == [path |-> path, frag |-> frag]

\* tag.get("href") of a tag without the attribute
NoHref == Url("None", "None")

\* a Tag: name, the set of its CSS classes, its id, its children
Tag(name, class, id, contents) ==
    [name |-> name, class |-> class, id |-> id, href |-> NoHref,
     string |-> <<>>, contents |-> contents]

\* a NavigableString: it has no tag name
NavigableString(s) ==
    [name |-> "None", class |-> {}, id |-> "", href |-> NoHref,
     string |-> s, contents |-> <<>>]

BeautifulSoup(contents) == Tag("[document]", {}, "", contents)

Front(p) == SubSeq(p, 1, Len(p) - 1)

\* the node at a path of child indexes
RECURSIVE NodeAt(_, _)
NodeAt(node, path) ==
    IF path = <<>> THEN node ELSE NodeAt(node.contents[Head(path)], Tail(path))

\* Tag.descendants: the paths below `prefix`, children from index i on, in document order
RECURSIVE descendants(_, _, _)
descendants(node, prefix, i) ==
    IF i > Len(node.contents) THEN <<>>
    ELSE <<Append(prefix, i)>>
         \o descendants(node.contents[i], Append(prefix, i), 1)
         \o descendants(node, prefix, i + 1)

\* node with the children of the node at `path` replaced
RECURSIVE SetContents(_, _, _)
SetContents(node, path, new) ==
    IF path = <<>> THEN [node EXCEPT !.contents = new]
    ELSE [node EXCEPT !.contents[Head(path)] =
             SetContents(node.contents[Head(path)], Tail(path), new)]

\* find_all("div", class_=class_name): paths in document order
find_all_div_class(tree, class_name) ==
    SelectSeq(descendants(tree, <<>>, 1),
              LAMBDA p : NodeAt(tree, p).name = "div" /\ class_name \in NodeAt(tree, p).class)

\* find_all("hr")
find_all_hr(tree) ==
    SelectSeq(descendants(tree, <<>>, 1), LAMBDA p : NodeAt(tree, p).name = "hr")

\* remove_divs_by_class: every matching div is decomposed, with its subtree
RECURSIVE remove_divs_by_class(_, _)
RECURSIVE remove_divs_in(_, _)
remove_divs_in(kids, class_name) ==
    IF kids = <<>> THEN <<>>
    ELSE LET k == Head(kids)
         IN  (IF k.name = "div" /\ class_name \in k.class
              THEN <<>> ELSE <<remove_divs_by_class(k, class_name)>>)
             \o remove_divs_in(Tail(kids), class_name)

remove_divs_by_class(node, class_name) ==
    [node EXCEPT !.contents = remove_divs_in(node.contents, class_name)]

\* a truncation that decomposes the later siblings but leaves the marker itself
siblings_kept_with_marker(contents, i) == SubSeq(contents, 1, i)

\* what is left of the marker's parent: the while loop decomposes every later
\* sibling, then the marker itself is decomposed
siblings_kept(contents, i) == SubSeq(contents, 1, i - 1)

\* the common body of remove_after_div_class and remove_after_hr, given the
\* matches of find(): the first one (if any) is the target
remove_after(tree, found) ==
    IF found = <<>> THEN tree
    ELSE LET target == Head(found)
             parent == Front(target)
         IN  SetContents(tree, parent,
                 siblings_kept(NodeAt(tree, parent).contents, target[Len(target)]))

remove_after_div_class(tree, class_name) ==
    remove_after(tree, find_all_div_class(tree, class_name))

remove_after_hr(tree) == remove_after(tree, find_all_hr(tree))

\* the strings below a node, in document order
RECURSIVE all_strings(_)
RECURSIVE all_strings_in(_)
all_strings_in(kids) ==
    IF kids = <<>> THEN <<>> ELSE all_strings(Head(kids)) \o all_strings_in(Tail(kids))

all_strings(node) ==
    IF node.name = "None" THEN <<node.string>> ELSE all_strings_in(node.contents)

RECURSIVE JoinWith(_, _)
JoinWith(parts, sep) ==
    IF parts = <<>> THEN <<>>
    ELSE IF Len(parts) = 1 THEN Head(parts)
    ELSE Head(parts) \o sep \o JoinWith(Tail(parts), sep)

\* get_text(" ", strip=True): the stripped, non-empty strings joined by a space
get_text(node) == JoinWith(StripNonEmpty(all_strings(node)), <<" ">>)

HeadingsAndP == {"p", "h1", "h2", "h3", "h4", "h5", "h6"}

NoPath == <<0>>

\* find_parent("div", id="mw-content-text"): some proper ancestor is that div
has_content_text_parent(tree, path) ==
    \E n \in 0..(Len(path) - 1) :
        LET a == NodeAt(tree, SubSeq(path, 1, n))
        IN  a.name = "div" /\ a.id = "mw-content-text"

\* the main content container extract_content works on (NoPath when there is none)
parser_div(tree) ==
    LET cands  == find_all_div_class(tree, "mw-parser-output")
        nested == SelectSeq(cands, LAMBDA p : has_content_text_parent(tree, p))
    IN  IF nested # <<>> THEN Head(nested)
        ELSE IF cands # <<>> THEN Head(cands)
        ELSE NoPath

\* the loop of extract_content over parser_div.contents, from child i on
RECURSIVE extract_loop(_, _, _)
extract_loop(kids, i, stop_marker) ==
    IF i > Len(kids) THEN <<>>
    ELSE LET element == kids[i]
         IN  IF element.name = "div" /\ stop_marker \in element.class THEN <<>>
             ELSE (IF element.name \in HeadingsAndP /\ get_text(element) # <<>>
                   THEN <<get_text(element)>> ELSE <<>>)
                  \o extract_loop(kids, i + 1, stop_marker)

extract_content(tree, stop_marker) ==
    IF parser_div(tree) = NoPath THEN <<>>
    ELSE extract_loop(NodeAt(tree, parser_div(tree)).contents, 1, stop_marker)

----------------------------------------------------------------------------
(* The documents the sanitizer and the extractor are applied to *)

HalloWelt == <<"H", "a", "l", "l", "o", " ", "W", "e", "l", "t", ".">>
NachMarker == <<"N", "a", "c", "h", " ", "M", "a", "r", "k", "e", "r", ".">>

P(text) == Tag("p", {}, "", <<NavigableString(text)>>)

MarkerDiv == Tag("div", {"mw-inputbox-centered"}, "", <<NavigableString(<<"x">>)>>)

\* the direct children a main content container is built from
ContainerKids ==
    { P(HalloWelt),
      \* <p>Nach <b>Marker.</b></p>
      Tag("p", {}, "", <<NavigableString(<<"N", "a", "c", "h", " ">>),
                         Tag("b", {}, "", <<NavigableString(<<"M", "a", "r", "k", "e", "r", ".">>)>>)>>),
      Tag("h2", {}, "", <<NavigableString(<<" ", "T", " ">>)>>),
      P(<<" ">>),
      MarkerDiv,
      Tag("p", {"mw-inputbox-centered"}, "", <<NavigableString(<<"y">>)>>),
      Tag("hr", {}, "", <<>>),
      \* a wrapper with an info box, a marker div and an <hr> nested one level down
      Tag("div", {}, "", <<P(<<"I">>), Tag("div", {"klexibox"}, "", <<P(<<"B">>)>>),
                           MarkerDiv, Tag("hr", {}, "", <<>>), P(<<"J">>)>>),
      NavigableString(<<"z">>) }

ParserOutput(kids) == Tag("div", {"mw-parser-output"}, "", kids)
ContentText(kids) == Tag("div", {}, "mw-content-text", kids)

\* the page layouts around the container
Layouts(kids) ==
    { \* the container inside the outer content wrapper
      BeautifulSoup(<<ContentText(<<ParserOutput(kids)>>)>>),
      \* two candidates: one outside the wrapper first, the nested one second,
      \* with a marker div and an <hr> before it at its level
      BeautifulSoup(<<ParserOutput(<<P(<<"V">>)>>),
                      ContentText(<<MarkerDiv, Tag("hr", {}, "", <<>>), ParserOutput(kids)>>)>>),
      \* no outer wrapper
      BeautifulSoup(<<ParserOutput(kids)>>),
      \* no container at all
      BeautifulSoup(kids) }

\* <p>Hallo Welt.</p>, a child with the marker class, <p>Nach Marker.</p>
ExampleKids ==
    { <<P(HalloWelt), MarkerDiv, P(NachMarker)>>,
      <<P(HalloWelt), Tag("span", {"mw-inputbox-centered"}, "", <<NavigableString(<<"x">>)>>),
        P(NachMarker)>> }

SampleSoups ==
    UNION {Layouts(kids) : kids \in SeqsUpTo(ContainerKids, MaxKids) \cup ExampleKids}

DomInit ==
    /\ soup \in SampleSoups
    /\ before = soup
    /\ content = <<>>
    /\ dom_op = "none"

DomIdle ==
    /\ soup = BeautifulSoup(<<>>)
    /\ before = BeautifulSoup(<<>>)
    /\ content = <<>>
    /\ dom_op = "idle"

\* a call remove_divs_by_class(soup, "klexibox")
DomRemoveDivsByClass ==
    /\ dom_op \notin {"idle", "extract_content"}
    /\ before' = soup
    /\ soup' = remove_divs_by_class(soup, "klexibox")
    /\ dom_op' = "remove_divs_by_class"
    /\ UNCHANGED content
    /\ UNCHANGED notDom

\* a call remove_after_div_class(soup, "mw-inputbox-centered")
DomRemoveAfterDivClass ==
    /\ dom_op \notin {"idle", "extract_content"}
    /\ before' = soup
    /\ soup' = remove_after_div_class(soup, "mw-inputbox-centered")
    /\ dom_op' = "remove_after_div_class"
    /\ UNCHANGED content
    /\ UNCHANGED notDom

\* a call remove_after_hr(soup)
DomRemoveAfterHr ==
    /\ dom_op \notin {"idle", "extract_content"}
    /\ before' = soup
    /\ soup' = remove_after_hr(soup)
    /\ dom_op' = "remove_after_hr"
    /\ UNCHANGED content
    /\ UNCHANGED notDom

\* a call extract_content(soup), with the default stop marker
DomExtractContent ==
    /\ dom_op \notin {"idle", "extract_content"}
    /\ before' = soup
    /\ content' = extract_content(soup, "mw-inputbox-centered")
    /\ dom_op' = "extract_content"
    /\ UNCHANGED soup
    /\ UNCHANGED notDom

DomNext ==
    \/ DomRemoveDivsByClass
    \/ DomRemoveAfterDivClass
    \/ DomRemoveAfterHr
    \/ DomExtractContent

----------------------------------------------------------------------------
(* parse_links: the TOC tree parser *)

\* urllib.parse.urljoin(base, url): no url gives the base; a url that is only a
\* fragment gives the base document with that fragment; else the url itself
urljoin(base, url) ==
    IF url = NoHref \/ url = Url("", "") THEN base
    ELSE IF url.path = "" THEN Url(base.path, url.frag)
    ELSE url

\* url.split('#')[0]
strip_fragment(url) == url.path

\* a comparison of the whole URLs, fragment included
same_document_exact(link_url, parent_href) == link_url = parent_href

\* line 53: link_url.split('#')[0] == parent_href.split('#')[0]
same_document(link_url, parent_href) ==
    strip_fragment(link_url) = strip_fragment(parent_href)

\* find_all(names) below a node: the descendants with one of the names, in document order
find_all_names(node, names) ==
    LET d == descendants(node, <<>>, 1)
    IN  SelectSeq(d, LAMBDA p : NodeAt(node, p).name \in names)

\* lines 41-47: the first <a> below the <li> that contains no <img> (NoPath when none)
selected_a(li) ==
    LET a_tags == find_all_names(li, {"a"})
        plain  == SelectSeq(a_tags,
                      LAMBDA p : find_all_names(NodeAt(li, p), {"img"}) = <<>>)
    IN  IF plain = <<>> THEN NoPath ELSE Head(plain)

\* parent_href is None for the top-level call
NoParent == Url("None", "None")

RECURSIVE parse_links(_, _, _)
RECURSIVE parse_items(_, _, _, _)
\* the loop over the direct <li> children, from child i on
parse_items(kids, i, base_url, parent_href) ==
    IF i > Len(kids) THEN <<>>
    ELSE LET li   == kids[i]
             rest == parse_items(kids, i + 1, base_url, parent_href)
         IN  IF li.name # "li" \/ selected_a(li) = NoPath THEN rest
             ELSE LET a        == NodeAt(li, selected_a(li))
                      link_url == urljoin(base_url, a.href)
                      nested   == find_all_names(li, {"ol", "ul"})
                  IN  IF parent_href # NoParent /\ same_document(link_url, parent_href)
                      THEN rest
                      ELSE << [text |-> get_text(a),
                               href |-> link_url,
                               subchapters |->
                                   IF nested = <<>> THEN <<>>
                                   ELSE parse_links(NodeAt(li, Head(nested)), base_url, link_url)] >>
                           \o rest

parse_links(list_tag, base_url, parent_href) ==
    parse_items(list_tag.contents, 1, base_url, parent_href)

A(href, contents) == [Tag("a", {}, "", contents) EXCEPT !.href = href]

\* what an <li> starts with, before its nested list
LiHeads ==
    { <<A(Url("/A", ""), <<NavigableString(<<"A">>)>>)>>,
      <<A(Url("/A", "f"), <<NavigableString(<<"A", "f">>)>>)>>,
      \* an image-only anchor, then a link to a fragment of the TOC page itself
      <<A(Url("/I", ""), <<Tag("img", {}, "", <<>>)>>), A(Url("", "g"), <<NavigableString(<<"g">>)>>)>>,
      \* an anchor without href
      <<A(NoHref, <<NavigableString(<<"n">>)>>)>>,
      \* no anchor of its own
      <<NavigableString(<<"t">>)>> }

Li(head, sub) ==
    Tag("li", {}, "", IF sub = <<>> THEN head ELSE Append(head, Tag("ul", {}, "", sub)))

\* the sequences of <li> trees with n <li> elements in all
RECURSIVE LiForests(_)
LiForests(n) ==
    IF n = 0 THEN {<<>>}
    ELSE UNION { { <<Li(h, sub)>> \o rest :
                     h \in LiHeads, sub \in LiForests(k - 1), rest \in LiForests(n - k) }
                 : k \in 1..n }

toc_url == Url("/toc", "")

TocInit ==
    /\ list_element \in {Tag("ul", {}, "", f) : f \in UNION {LiForests(n) : n \in 0..MaxLis}}
    /\ links = <<>>
    /\ toc_pc = "input"

TocIdle ==
    /\ list_element = Tag("ul", {}, "", <<>>)
    /\ links = <<>>
    /\ toc_pc = "idle"

\* crawl_wikijunior_toc line 94: parse_links(list_tag, toc_url)
TocParseLinks ==
    /\ toc_pc = "input"
    /\ links' = parse_links(list_element, toc_url, NoParent)
    /\ toc_pc' = "parsed"
    /\ UNCHANGED list_element
    /\ UNCHANGED notToc

TocNext == TocParseLinks

----------------------------------------------------------------------------
(* crawl_wikijunior_toc: the chapters of a TOC page *)

Headings == {"h1", "h2", "h3", "h4", "h5", "h6"}

\* line 89: "Zusammenfassung des Projekts"
Zusammenfassung ==
    <<"Z", "u", "s", "a", "m", "m", "e", "n", "f", "a", "s", "s", "u", "n", "g", " ",
      "d", "e", "s", " ", "P", "r", "o", "j", "e", "k", "t", "s">>

\* find("div", id=...): the first div with that id, in document order (NoPath when none)
find_div_id(tree, id) ==
    LET found == SelectSeq(descendants(tree, <<>>, 1),
                     LAMBDA p : NodeAt(tree, p).name = "div" /\ NodeAt(tree, p).id = id)
    IN  IF found = <<>> THEN NoPath ELSE Head(found)

\* a lookup that accepts only the sibling right after child i
next_sibling_only(kids, i, names) ==
    IF i < Len(kids) /\ kids[i + 1].name \in names THEN i + 1 ELSE 0

\* find_next_sibling(names) of child i: the index of the first later sibling
\* with one of the names, whatever lies between (0 when none)
find_next_sibling(kids, i, names) ==
    LET later == {j \in (i + 1)..Len(kids) : kids[j].name \in names}
    IN  IF later = {} THEN 0 ELSE CHOOSE j \in later : \A k \in later : j <= k

\* lines 84-93: the loop over the header divs, from the k-th on: the header divs
\* that pass the three `continue`s, each with its title and its list_tag (paths
\* below toc_div)
RECURSIVE chapter_headers(_, _, _)
chapter_headers(toc_div, header_divs, k) ==
    IF k > Len(header_divs) THEN <<>>
    ELSE LET h           == header_divs[k]
             header_div  == NodeAt(toc_div, h)
             heading_tag == find_all_names(header_div, Headings)
             rest        == chapter_headers(toc_div, header_divs, k + 1)
         IN  IF heading_tag = <<>> THEN rest
             ELSE LET chapter_title == get_text(NodeAt(header_div, Head(heading_tag)))
                      siblings      == NodeAt(toc_div, Front(h)).contents
                      list_tag      == find_next_sibling(siblings, h[Len(h)], {"ol", "ul"})
                  IN  IF chapter_title = Zusammenfassung \/ list_tag = 0 THEN rest
                      ELSE << [header_div |-> h, chapter_title |-> chapter_title,
                               list_tag |-> Append(Front(h), list_tag)] >>
                           \o rest

\* line 80: toc_div (NoPath when the page has none)
toc_div_of(page) == find_div_id(page, "mw-content-text")

\* the header divs of the page that form a chapter
headers_of(page) ==
    IF toc_div_of(page) = NoPath THEN <<>>
    ELSE LET toc_div == NodeAt(page, toc_div_of(page))
         IN  chapter_headers(toc_div, find_all_div_class(toc_div, "mw-heading"), 1)

\* lines 80-99, on a fetched page: lines 94-98 make the chapter of each header
crawl_wikijunior_toc(page) ==
    LET toc_div == NodeAt(page, toc_div_of(page))
        formed  == headers_of(page)
    IN  [k \in 1..Len(formed) |->
            [chapter |-> formed[k].chapter_title,
             links |-> parse_links(NodeAt(toc_div, formed[k].list_tag), toc_url, NoParent)]]

\* a chapter header: div.mw-heading around the heading tag
MwHeading(name, title) ==
    Tag("div", {"mw-heading"}, "", <<Tag(name, {}, "", <<NavigableString(title)>>)>>)

LinkList(name, path, text) ==
    Tag(name, {}, "", <<Tag("li", {}, "", <<A(Url(path, ""), <<NavigableString(text)>>)>>)>>)

\* the children a TOC container is built from
TocKids ==
    { MwHeading("h2", <<"K">>),
      MwHeading("h3", <<"L">>),
      MwHeading("h2", Zusammenfassung),
      \* a header div without a heading tag
      Tag("div", {"mw-heading"}, "", <<Tag("span", {}, "", <<NavigableString(<<"s">>)>>)>>),
      \* a header nested one level down
      Tag("div", {}, "", <<MwHeading("h2", <<"N">>)>>),
      P(<<"t">>),
      NavigableString(<<"\n">>),
      LinkList("ul", "/A", <<"A">>),
      LinkList("ol", "/B", <<"B">>) }

TocPages ==
    {BeautifulSoup(<<ContentText(kids)>>) : kids \in SeqsUpTo(TocKids, MaxSibs)}
    \cup {BeautifulSoup(<<Tag("div", {}, "content", <<MwHeading("h2", <<"K">>),
                                                       LinkList("ul", "/A", <<"A">>)>>)>>)}

ChapInit ==
    /\ toc_soup \in TocPages
    /\ chapters = <<>>
    /\ list_tags = <<>>
    /\ chap_pc = "input"

ChapIdle ==
    /\ toc_soup = BeautifulSoup(<<>>)
    /\ chapters = <<>>
    /\ list_tags = <<>>
    /\ chap_pc = "idle"

\* lines 77-79: get_soup gave the page, or None and the result is []
ChapCrawlToc ==
    /\ chap_pc = "input"
    /\ \E ok \in BOOLEAN :
          IF ok THEN /\ chapters' = crawl_wikijunior_toc(toc_soup)
                     /\ list_tags' = headers_of(toc_soup)
                     /\ chap_pc' = "returned"
          ELSE /\ chapters' = <<>>
               /\ list_tags' = <<>>
               /\ chap_pc' = "failed"
    /\ UNCHANGED toc_soup
    /\ UNCHANGED notChap

ChapNext == ChapCrawlToc

----------------------------------------------------------------------------
(* crawl_projekt_gutenberg: the pagination walker and the loop over the books *)

PathNames == <<"/1", "/2", "/3", "/4">>
PageLetters == <<"a", "b", "c", "d">>

Paths == {PathNames[i] : i \in 1..NumPages}

PathIndex(path) == CHOOSE i \in 1..NumPages : PathNames[i] = path

\* lines 87-99: the text collected from a page, each element's text followed by " "
page_text(path) == <<PageLetters[PathIndex(path)], ".", " ">>

\* an <a> whose text contains "weiter": its href, and whether it is inside a dropdown
Cand(href, dropdown) == [href |-> href, dropdown |-> dropdown]

\* the hrefs a "weiter" link may carry: none, a page of the site, a bare fragment
Hrefs == {NoHref, Url("", "x")} \cup {Url(q, "") : q \in Paths}

\* the candidate links of a page, in document order
CandLists ==
    {<<>>}
    \cup {<<Cand(h, FALSE)>> : h \in Hrefs}
    \cup {<<Cand(Url(PathNames[1], ""), TRUE)>>,
          <<Cand(Url(PathNames[1], ""), TRUE), Cand(Url(PathNames[NumPages], ""), FALSE)>>}

\* the number of distinct URLs of the site: each path, without and with the fragment
NumUrls == 2 * NumPages

\* lines 104-109: the first candidate that is not inside a dropdown (<<>> when none)
next_link_tag(candidate_links) ==
    SelectSeq(candidate_links, LAMBDA link : ~link.dropdown)

\* a walker without the guard of line 116
never_identical(next_url, url) == FALSE

\* line 116: next_url == current_url
is_identical(next_url, url) == next_url = url

\* a walker that returns nothing when a fetch fails
blocks_dropped(blocks) == <<>>

\* lines 80-81: the break on a failed fetch leaves content_blocks as it is
blocks_after_failed_fetch(blocks) == blocks

GutInit ==
    /\ web \in [Paths -> CandLists]
    /\ index_books \in {<<Url(p, "")>> : p \in Paths}
                       \cup {<<Url(p, ""), Url(q, "")>> : p \in Paths, q \in Paths}
    /\ g_pc = "lesetips"
    /\ books = <<>>
    /\ idx = 1
    /\ records = <<>>
    /\ current_url = NoHref
    /\ content_blocks = <<>>
    /\ w_pc = "idle"
    /\ requests = <<>>
    /\ full_text = <<>>

GutIdle ==
    /\ web = <<>>
    /\ index_books = <<>>
    /\ g_pc = "idle"
    /\ books = <<>>
    /\ idx = 1
    /\ records = <<>>
    /\ current_url = NoHref
    /\ content_blocks = <<>>
    /\ w_pc = "idle"
    /\ requests = <<>>
    /\ full_text = <<>>

\* crawl_lesetips: get_soup of the index page; soup.find_all on None raises
\* AttributeError, which nothing catches
GutLesetips ==
    /\ g_pc = "lesetips"
    /\ \E ok \in BOOLEAN :
          IF ok THEN /\ books' = index_books
                     /\ g_pc' = "books"
          ELSE /\ g_pc' = "crashed"
               /\ UNCHANGED books
    /\ UNCHANGED <<web, index_books, idx, records, current_url, content_blocks, w_pc,
                   requests, full_text>>
    /\ UNCHANGED notGut

\* lines 143-148: the next book; fetch_book_content starts (lines 74-75)
GutStartBook ==
    /\ g_pc = "books"
    /\ idx <= Len(books)
    /\ current_url' = books[idx]
    /\ content_blocks' = <<>>
    /\ w_pc' = "fetch"
    /\ g_pc' = "walking"
    /\ UNCHANGED <<web, index_books, books, idx, records, requests, full_text>>
    /\ UNCHANGED notGut

\* lines 78-81: get_soup(current_url); a failure ends the loop
GutFetch ==
    /\ g_pc = "walking"
    /\ w_pc = "fetch"
    /\ Len(content_blocks) <= NumUrls
    /\ \E ok \in BOOLEAN :
          /\ requests' = Append(requests, [book |-> idx, url |-> current_url, ok |-> ok])
          /\ IF ok THEN /\ w_pc' = "extract"
                        /\ UNCHANGED content_blocks
             ELSE /\ w_pc' = "Failed"
                  /\ content_blocks' = blocks_after_failed_fetch(content_blocks)
    /\ UNCHANGED <<web, index_books, g_pc, books, idx, records, current_url, full_text>>
    /\ UNCHANGED notGut

\* lines 84-100: the page's text is appended
GutExtract ==
    /\ g_pc = "walking"
    /\ w_pc = "extract"
    /\ content_blocks' = Append(content_blocks, strip(page_text(current_url.path)))
    /\ w_pc' = "advance"
    /\ UNCHANGED <<web, index_books, g_pc, books, idx, records, current_url, requests,
                   full_text>>
    /\ UNCHANGED notGut

\* lines 103-121: follow the "weiter" link, or stop
GutAdvance ==
    /\ g_pc = "walking"
    /\ w_pc = "advance"
    /\ LET tag == next_link_tag(web[current_url.path])
       IN  IF tag # <<>> /\ Head(tag).href # NoHref
           THEN LET next_url == urljoin(current_url, Head(tag).href)
                IN  IF is_identical(next_url, current_url)
                    THEN w_pc' = "Done" /\ UNCHANGED current_url
                    ELSE w_pc' = "fetch" /\ current_url' = next_url
           ELSE w_pc' = "Done" /\ UNCHANGED current_url
    /\ UNCHANGED <<web, index_books, g_pc, books, idx, records, content_blocks, requests,
                   full_text>>
    /\ UNCHANGED notGut

\* lines 123-124 and 149-157: the text is joined and returned, the book's record appended
GutReturn ==
    /\ g_pc = "walking"
    /\ w_pc \in {"Done", "Failed"}
    /\ LET text == strip(JoinWith(content_blocks, <<" ">>))
       IN  /\ full_text' = text
           /\ records' = Append(records, [ID |-> idx, BookLink |-> books[idx],
                                          Sentences |-> split_into_sentences(text)])
    /\ idx' = idx + 1
    /\ g_pc' = "books"
    /\ UNCHANGED <<web, index_books, books, current_url, content_blocks, w_pc, requests>>
    /\ UNCHANGED notGut

\* lines 159-160: the loop is over, the DataFrame is returned
GutFinish ==
    /\ g_pc = "books"
    /\ idx > Len(books)
    /\ g_pc' = "finished"
    /\ UNCHANGED <<web, index_books, books, idx, records, current_url, content_blocks,
                   w_pc, requests, full_text>>
    /\ UNCHANGED notGut

GutNext ==
    \/ GutLesetips
    \/ GutStartBook
    \/ GutFetch
    \/ GutExtract
    \/ GutAdvance
    \/ GutReturn
    \/ GutFinish

----------------------------------------------------------------------------
(* crawl_klexikon / crawl_miniklexikon: the listing loop and the worker pool *)

\* main.py: default=None of --max_pages
NoLimit == -1

\* a category page: the hrefs of its div.mw-category links, in document order
\* ("None": an <a> without href); every page but the last has a "nächste Seite" link
CategoryChains ==
    { << <<"/wiki/A", "/wiki/B">> >>,
      << <<"/wiki/A", "/Spezial:X">>, <<"/wiki/B", "/wiki/C">> >>,
      << <<"/wiki/A">>, <<"None", "/wiki/B">>, <<"/wiki/C">> >>,
      << <<>> >> }

base_url(s) == IF s = "klexikon" THEN "https://klexikon.zum.de" ELSE "https://miniklexikon.zum.de"

\* base_url + href
full_url(s, href) == <<base_url(s), href>>

\* lines 46-49: the hrefs that start with "/wiki/" are kept
RECURSIVE article_urls(_, _)
article_urls(s, hrefs) ==
    IF hrefs = <<>> THEN <<>>
    ELSE (IF Head(hrefs) \in {"/wiki/A", "/wiki/B", "/wiki/C"}
          THEN <<full_url(s, Head(hrefs))>> ELSE <<>>)
         \o article_urls(s, Tail(hrefs))

\* the article page every successful article fetch returns
ArticleSoup ==
    BeautifulSoup(<<ContentText(<<ParserOutput(
        <<P(HalloWelt), Tag("div", {"klexibox"}, "", <<P(<<"B">>)>>),
          Tag("h2", {}, "", <<NavigableString(<<"T">>)>>),
          Tag("hr", {}, "", <<>>), MarkerDiv, P(NachMarker)>>)>>)>>)

RECURSIVE all_sentences(_)
all_sentences(paragraphs) ==
    IF paragraphs = <<>> THEN <<>>
    ELSE split_into_sentences(Head(paragraphs)) \o all_sentences(Tail(paragraphs))

\* the try block of _fetch_article on a fetched page
article_record(s, url, page) ==
    LET cleaned   == remove_divs_by_class(page, "klexibox")
        truncated == IF s = "klexikon"
                     THEN remove_after_div_class(cleaned, "mw-inputbox-centered")
                     ELSE remove_after_hr(cleaned)
        paragraphs == extract_content(truncated, "mw-inputbox-centered")
    IN  [WikiLink |-> url, Paragraphs |-> paragraphs, Sentences |-> all_sentences(paragraphs)]

\* the except block of _fetch_article: get_soup returned None and
\* remove_divs_by_class(None, ...) raised AttributeError
error_record(s, url) ==
    IF s = "klexikon"
    THEN [WikiLink |-> url, Content |-> <<>>, Sentences |-> <<>>]
    ELSE [WikiLink |-> url, Paragraphs |-> <<>>, Sentences |-> <<>>]

\* a missing value in a DataFrame column: not a list
NaN == << <<"NaN">> >>

\* pd.DataFrame(data_records, columns=[...]): one row per record, in list order;
\* a key the record lacks gives NaN, a key that is no column is dropped
row(record) ==
    [c \in {"ID", "WikiLink", "Paragraphs", "Sentences"} |->
        IF c \in DOMAIN record THEN record[c] ELSE NaN]

\* line 63: idx of enumerate(as_completed(...), start=1) is the position n in
\* the order of collection, not the future's position i in the submission order
id_of_result(i, n) == n

WikiInit ==
    /\ site \in {"klexikon", "miniklexikon"}
    /\ category_pages \in CategoryChains
    /\ max_pages \in {NoLimit} \cup 0..MaxPagesArg
    /\ max_workers \in 1..MaxWorkersArg
    /\ wiki_pc = "listing"
    /\ page_no = 1
    /\ page_count = 0
    /\ all_article_urls = <<>>
    /\ futures = <<>>
    /\ data_records = <<>>
    /\ df = <<>>

WikiIdle ==
    /\ site = "none"
    /\ category_pages = <<>>
    /\ max_pages = NoLimit
    /\ max_workers = 0
    /\ wiki_pc = "idle"
    /\ page_no = 1
    /\ page_count = 0
    /\ all_article_urls = <<>>
    /\ futures = <<>>
    /\ data_records = <<>>
    /\ df = <<>>

\* lines 42-56, one turn of the listing loop: get_soup(current_url); on None
\* soup.select raises AttributeError, which nothing catches
WikiListPage ==
    /\ wiki_pc = "listing"
    /\ \E ok \in BOOLEAN :
          IF ~ok
          THEN /\ wiki_pc' = "crashed"
               /\ UNCHANGED <<page_no, page_count, all_article_urls>>
          ELSE /\ all_article_urls' =
                     all_article_urls \o article_urls(site, category_pages[page_no])
               /\ IF page_no = Len(category_pages)
                  THEN \* no "nächste Seite" link
                       /\ wiki_pc' = "submit"
                       /\ UNCHANGED <<page_no, page_count>>
                  ELSE /\ page_no' = page_no + 1
                       /\ page_count' = page_count + 1
                       /\ wiki_pc' = IF max_pages \notin {NoLimit, 0}
                                        /\ page_count + 1 >= max_pages
                                     THEN "submit" ELSE "listing"
    /\ UNCHANGED <<site, category_pages, max_pages, max_workers, futures, data_records, df>>
    /\ UNCHANGED notWiki

\* line 61: every article URL is submitted to the pool, in list order
WikiSubmit ==
    /\ wiki_pc = "submit"
    /\ futures' = [i \in 1..Len(all_article_urls) |->
                      [url |-> all_article_urls[i], state |-> "queued",
                       fetched |-> FALSE, collected |-> 0,
                       result |-> error_record(site, all_article_urls[i])]]
    /\ wiki_pc' = "pool"
    /\ UNCHANGED <<site, category_pages, max_pages, max_workers, page_no, page_count,
                   all_article_urls, data_records, df>>
    /\ UNCHANGED notWiki

\* a free worker takes the oldest queued work item
WikiStart(i) ==
    /\ wiki_pc = "pool"
    /\ futures[i].state = "queued"
    /\ \A j \in 1..(i - 1) : futures[j].state # "queued"
    /\ Cardinality({j \in 1..Len(futures) : futures[j].state = "running"}) < max_workers
    /\ futures' = [futures EXCEPT ![i].state = "running"]
    /\ UNCHANGED <<site, category_pages, max_pages, max_workers, wiki_pc, page_no,
                   page_count, all_article_urls, data_records, df>>
    /\ UNCHANGED notWiki

\* _fetch_article runs to its end in a worker: get_soup gives a page or None
WikiFetchArticle(i) ==
    /\ wiki_pc = "pool"
    /\ futures[i].state = "running"
    /\ \E ok \in BOOLEAN :
          futures' = [futures EXCEPT
                         ![i].state = "done",
                         ![i].fetched = ok,
                         ![i].result = IF ok THEN article_record(site, futures[i].url, ArticleSoup)
                                       ELSE error_record(site, futures[i].url)]
    /\ UNCHANGED <<site, category_pages, max_pages, max_workers, wiki_pc, page_no,
                   page_count, all_article_urls, data_records, df>>
    /\ UNCHANGED notWiki

\* lines 62-65: as_completed yields a finished future; its result gets the ID
WikiCollect(i) ==
    /\ wiki_pc = "pool"
    /\ futures[i].state = "done"
    /\ futures[i].collected = 0
    /\ futures' = [futures EXCEPT ![i].collected = Len(data_records) + 1]
    /\ data_records' =
          Append(data_records,
                 [k \in DOMAIN futures[i].result \cup {"ID"} |->
                     IF k = "ID" THEN id_of_result(i, Len(data_records) + 1)
                     ELSE futures[i].result[k]])
    /\ UNCHANGED <<site, category_pages, max_pages, max_workers, wiki_pc, page_no,
                   page_count, all_article_urls, df>>
    /\ UNCHANGED notWiki

\* lines 67-68: every future has been collected; the DataFrame is built and returned
WikiReturn ==
    /\ wiki_pc = "pool"
    /\ Len(data_records) = Len(futures)
    /\ df' = [k \in 1..Len(data_records) |-> row(data_records[k])]
    /\ wiki_pc' = "finished"
    /\ UNCHANGED <<site, category_pages, max_pages, max_workers, page_no, page_count,
                   all_article_urls, futures, data_records>>
    /\ UNCHANGED notWiki

WikiNext ==
    \/ WikiListPage
    \/ WikiSubmit
    \/ \E i \in 1..Len(futures) : WikiStart(i)
    \/ \E i \in 1..Len(futures) : WikiFetchArticle(i)
    \/ \E i \in 1..Len(futures) : WikiCollect(i)
    \/ WikiReturn

----------------------------------------------------------------------------
(* crawl_wikijunior_toc_and_content: the TOC page, then one fetch per link *)

\* crawl_wikijunior line 208: crawl_wikijunior_toc_and_content(url, max_workers=4)
toc_max_workers == 4

\* lines 22-23: every <table> below the node is decomposed
RECURSIVE remove_tables(_)
RECURSIVE remove_tables_in(_)
remove_tables_in(kids) ==
    IF kids = <<>> THEN <<>>
    ELSE (IF Head(kids).name = "table" THEN <<>> ELSE <<remove_tables(Head(kids))>>)
         \o remove_tables_in(Tail(kids))

remove_tables(node) == [node EXCEPT !.contents = remove_tables_in(node.contents)]

\* the non-empty texts of a list of elements
RECURSIVE texts_of(_, _, _)
texts_of(node, elements, k) ==
    IF k > Len(elements) THEN <<>>
    ELSE (IF get_text(NodeAt(node, elements[k])) # <<>>
          THEN <<get_text(NodeAt(node, elements[k]))>> ELSE <<>>)
         \o texts_of(node, elements, k + 1)

\* extract_wikijunior_content lines 19-30, on a fetched page
extract_wikijunior_content(page) ==
    IF find_div_id(page, "mw-content-text") = NoPath THEN <<>>
    ELSE LET content_div == remove_tables(NodeAt(page, find_div_id(page, "mw-content-text")))
         IN  texts_of(content_div, find_all_names(content_div, HeadingsAndP), 1)

\* the content page every successful fetch of a chapter link returns
ChapterSoup ==
    BeautifulSoup(<<ContentText(
        <<Tag("div", {}, "", <<Tag("h2", {}, "", <<NavigableString(<<"T">>)>>)>>),
          Tag("table", {}, "", <<P(<<"i">>)>>),
          P(HalloWelt),
          P(<<" ">>)>>)>>)

\* lines 110-114: the text of the first <title>, "Unknown" without one
title_of(page) ==
    IF find_all_names(page, {"title"}) = <<>> THEN "Unknown"
    ELSE get_text(NodeAt(page, Head(find_all_names(page, {"title"}))))

\* a task as line 123 / 127 appends it, with the state of its future
Task(chapter_title, link) ==
    [chapter_title |-> chapter_title, link_text |-> link.text, url |-> link.href,
     state |-> "queued", paragraphs |-> <<>>]

\* lines 125-127: the loop over link["subchapters"]
RECURSIVE sub_tasks(_, _, _)
sub_tasks(chapter_title, subchapters, k) ==
    IF k > Len(subchapters) THEN <<>>
    ELSE <<Task(chapter_title, subchapters[k])>>
         \o sub_tasks(chapter_title, subchapters, k + 1)

\* lines 121-127: the loop over chapter["links"]
RECURSIVE link_tasks(_, _, _)
link_tasks(chapter_title, chapter_links, k) ==
    IF k > Len(chapter_links) THEN <<>>
    ELSE <<Task(chapter_title, chapter_links[k])>>
         \o sub_tasks(chapter_title, chapter_links[k].subchapters, 1)
         \o link_tasks(chapter_title, chapter_links, k + 1)

\* lines 119-127: the loop over toc_structure
RECURSIVE chapter_tasks(_, _)
chapter_tasks(structure, k) ==
    IF k > Len(structure) THEN <<>>
    ELSE link_tasks(structure[k].chapter, structure[k].links, 1)
         \o chapter_tasks(structure, k + 1)

\* <li><a href=path>text</a> [<ul>sub</ul>] </li>
LinkLi(path, sub) == Li(<<A(Url(path, ""), <<NavigableString(<<path>>)>>)>>, sub)

TitleTag == Tag("title", {}, "", <<NavigableString(<<"W">>)>>)

\* the TOC pages of the books
JuniorPages ==
    { \* two chapters, the first with a subchapter
      BeautifulSoup(<<TitleTag, ContentText(
          <<MwHeading("h2", <<"K">>),
            Tag("ul", {}, "", <<LinkLi("/A", <<LinkLi("/B", <<>>)>>)>>),
            MwHeading("h2", <<"L">>),
            Tag("ol", {}, "", <<LinkLi("/C", <<>>)>>)>>)>>),
      \* a subchapter with a subchapter of its own
      BeautifulSoup(<<TitleTag, ContentText(
          <<MwHeading("h2", <<"K">>),
            Tag("ul", {}, "",
                <<LinkLi("/A", <<LinkLi("/B", <<LinkLi("/C", <<>>)>>)>>)>>)>>)>>),
      \* five links in one chapter
      BeautifulSoup(<<TitleTag, ContentText(
          <<MwHeading("h2", <<"K">>),
            Tag("ul", {}, "", <<LinkLi("/A", <<>>), LinkLi("/B", <<>>), LinkLi("/C", <<>>),
                                LinkLi("/D", <<>>), LinkLi("/E", <<>>)>>)>>)>>),
      \* two headings before one list, no <title>
      BeautifulSoup(<<ContentText(
          <<MwHeading("h2", <<"K">>), MwHeading("h3", <<"L">>),
            Tag("ul", {}, "", <<LinkLi("/A", <<>>)>>)>>)>>),
      \* no container
      BeautifulSoup(<<TitleTag, P(<<"t">>)>>) }

JuniorInit ==
    /\ cli_max_workers \in 1..MaxWorkersArg
    /\ toc_page \in JuniorPages
    /\ book_title = "Unknown"
    /\ toc_structure = <<>>
    /\ tasks = <<>>
    /\ results = <<>>
    /\ junior_df = <<>>
    /\ j_pc = "title"

JuniorIdle ==
    /\ cli_max_workers = 0
    /\ toc_page = BeautifulSoup(<<>>)
    /\ book_title = "Unknown"
    /\ toc_structure = <<>>
    /\ tasks = <<>>
    /\ results = <<>>
    /\ junior_df = <<>>
    /\ j_pc = "idle"

\* lines 109-114: get_soup(toc_url) for the title
JuniorTitle ==
    /\ j_pc = "title"
    /\ \E ok \in BOOLEAN :
          book_title' = IF ok THEN title_of(toc_page) ELSE "Unknown"
    /\ j_pc' = "toc"
    /\ UNCHANGED <<cli_max_workers, toc_page, toc_structure, tasks, results, junior_df>>
    /\ UNCHANGED notJunior

\* line 115: crawl_wikijunior_toc fetches the page again
JuniorToc ==
    /\ j_pc = "toc"
    /\ \E ok \in BOOLEAN :
          toc_structure' = IF ok THEN crawl_wikijunior_toc(toc_page) ELSE <<>>
    /\ j_pc' = "submit"
    /\ UNCHANGED <<cli_max_workers, toc_page, book_title, tasks, results, junior_df>>
    /\ UNCHANGED notJunior

\* lines 118-127: the links and their subchapters are submitted to the pool
JuniorSubmit ==
    /\ j_pc = "submit"
    /\ tasks' = chapter_tasks(toc_structure, 1)
    /\ j_pc' = "pool"
    /\ UNCHANGED <<cli_max_workers, toc_page, book_title, toc_structure, results, junior_df>>
    /\ UNCHANGED notJunior

\* a free worker of the pool of max_workers threads takes the oldest queued task
JuniorStart(i) ==
    /\ j_pc = "pool"
    /\ tasks[i].state = "queued"
    /\ \A j \in 1..(i - 1) : tasks[j].state # "queued"
    /\ Cardinality({j \in 1..Len(tasks) : tasks[j].state = "running"}) < toc_max_workers
    /\ tasks' = [tasks EXCEPT ![i].state = "running"]
    /\ UNCHANGED <<cli_max_workers, toc_page, book_title, toc_structure, results, junior_df,
                   j_pc>>
    /\ UNCHANGED notJunior

\* extract_wikijunior_content runs to its end in a worker
JuniorExtract(i) ==
    /\ j_pc = "pool"
    /\ tasks[i].state = "running"
    /\ \E ok \in BOOLEAN :
          tasks' = [tasks EXCEPT
                       ![i].state = "done",
                       ![i].paragraphs = IF ok THEN extract_wikijunior_content(ChapterSoup)
                                         ELSE <<>>]
    /\ UNCHANGED <<cli_max_workers, toc_page, book_title, toc_structure, results, junior_df,
                   j_pc>>
    /\ UNCHANGED notJunior

\* lines 128-136: future.result() of the next task in the list
JuniorResult ==
    /\ j_pc = "pool"
    /\ Len(results) < Len(tasks)
    /\ LET t == tasks[Len(results) + 1]
       IN  /\ t.state = "done"
           /\ results' = Append(results,
                                [BookTitle |-> book_title, Chapter |-> t.chapter_title,
                                 LinkText |-> t.link_text, WikiLink |-> t.url,
                                 Paragraphs |-> t.paragraphs])
    /\ UNCHANGED <<cli_max_workers, toc_page, book_title, toc_structure, tasks, junior_df,
                   j_pc>>
    /\ UNCHANGED notJunior

\* lines 137-138: the DataFrame of the results, in list order
JuniorReturn ==
    /\ j_pc = "pool"
    /\ Len(results) = Len(tasks)
    /\ junior_df' = results
    /\ j_pc' = "finished"
    /\ UNCHANGED <<cli_max_workers, toc_page, book_title, toc_structure, tasks, results>>
    /\ UNCHANGED notJunior

JuniorNext ==
    \/ JuniorTitle
    \/ JuniorToc
    \/ JuniorSubmit
    \/ \E i \in 1..Len(tasks) : JuniorStart(i)
    \/ \E i \in 1..Len(tasks) : JuniorExtract(i)
    \/ JuniorResult
    \/ JuniorReturn

----------------------------------------------------------------------------
(* Specifications: one per component, the other components idle *)

InitSeg == WikiIdle /\ SegInit /\ DomIdle /\ TocIdle /\ ChapIdle /\ GutIdle /\ JuniorIdle
SpecSeg == InitSeg /\ [][SegNext]_vars

InitDom == WikiIdle /\ DomInit /\ SegIdle /\ TocIdle /\ ChapIdle /\ GutIdle /\ JuniorIdle
SpecDom == InitDom /\ [][DomNext]_vars

InitToc == WikiIdle /\ TocInit /\ SegIdle /\ DomIdle /\ ChapIdle /\ GutIdle /\ JuniorIdle
SpecToc == InitToc /\ [][TocNext]_vars

InitChap == WikiIdle /\ ChapInit /\ SegIdle /\ DomIdle /\ TocIdle /\ GutIdle /\ JuniorIdle
SpecChap == InitChap /\ [][ChapNext]_vars

InitGut == WikiIdle /\ GutInit /\ SegIdle /\ DomIdle /\ TocIdle /\ ChapIdle /\ JuniorIdle
SpecGut == InitGut /\ [][GutNext]_vars

\* the loop of fetch_book_content is sequential code that keeps running: an
\* enabled step of the walk is eventually taken
FairSpecGut ==
    InitGut /\ [][GutNext]_vars /\ WF_vars(GutFetch \/ GutExtract \/ GutAdvance)

InitJunior ==
    JuniorInit /\ WikiIdle /\ SegIdle /\ DomIdle /\ TocIdle /\ ChapIdle /\ GutIdle
SpecJunior == InitJunior /\ [][JuniorNext]_vars

InitWiki == WikiInit /\ SegIdle /\ DomIdle /\ TocIdle /\ ChapIdle /\ GutIdle /\ JuniorIdle
SpecWiki == InitWiki /\ [][WikiNext]_vars

----------------------------------------------------------------------------
(* C1: in crawl_klexikon and crawl_miniklexikon, for every list of article  *)
(* URLs submitted to the pool and every order in which the workers         *)
(* complete, the returned record with ID k carries the k-th submitted URL. *)
C1_IdFollowsSubmissionOrder ==
    wiki_pc = "finished" =>
        /\ Len(df) = Len(all_article_urls)
        /\ \A k \in 1..Len(df) :
              df[k]["ID"] = k /\ df[k]["WikiLink"] = all_article_urls[k]

(* C2: when the fetch of one article fails inside the pool, that article   *)
(* still yields exactly one record, with Paragraphs = [] and Sentences =   *)
(* [], in the klexikon and in the miniklexikon crawl; the records of the   *)
(* other articles are what their own pages give.                           *)
C2_FailedFetchGivesEmptyRecord ==
    wiki_pc = "finished" =>
        /\ Len(df) = Len(futures)
        /\ \A i \in 1..Len(futures) :
              /\ futures[i].collected \in 1..Len(df)
              /\ \A j \in 1..Len(futures) :
                    futures[j].collected = futures[i].collected => j = i
              /\ df[futures[i].collected]["WikiLink"] = futures[i].url
              /\ IF futures[i].fetched
                 THEN /\ df[futures[i].collected]["Paragraphs"] = <<HalloWelt, <<"T">>>>
                      /\ df[futures[i].collected]["Sentences"]
                            = <<SubSeq(HalloWelt, 1, Len(HalloWelt) - 1), <<"T">>>>
                 ELSE /\ df[futures[i].collected]["Paragraphs"] = <<>>
                      /\ df[futures[i].collected]["Sentences"] = <<>>

(* C3: no fetch failure aborts the overall run: a failed fetch of a        *)
(* category-listing page in crawl_klexikon / crawl_miniklexikon or of the  *)
(* book-index page in crawl_lesetips leads to a normally returned result   *)
(* set, never to an uncaught error that ends the crawl.                    *)
C3_NoFetchFailureAbortsTheRun ==
    wiki_pc # "crashed" /\ g_pc # "crashed"

----------------------------------------------------------------------------
(* The chain of pages a book's "weiter" links form *)

\* the URL the first qualifying link of the page at u resolves to (NoHref when
\* the page has no such link, or the link has no href)
NextUrl(u) ==
    LET tag == next_link_tag(web[u.path])
    IN  IF tag # <<>> /\ Head(tag).href # NoHref THEN urljoin(u, Head(tag).href) ELSE NoHref

\* within n pages the chain from u reaches a page without next link, or one
\* whose next link resolves to the page itself
RECURSIVE ChainEnds(_, _)
ChainEnds(u, n) ==
    /\ n > 0
    /\ \/ NextUrl(u) = NoHref
       \/ NextUrl(u) = u
       \/ ChainEnds(NextUrl(u), n - 1)

\* the texts of the first k pages of the chain from u
RECURSIVE ChainTexts(_, _)
ChainTexts(u, k) ==
    IF k = 0 THEN <<>> ELSE <<strip(page_text(u.path))>> \o ChainTexts(NextUrl(u), k - 1)

\* the get_soup calls made for book b
RequestsOf(b) == SelectSeq(requests, LAMBDA r : r.book = b)

\* the walk of book b ended in a failed fetch
WalkFailed(b) ==
    RequestsOf(b) # <<>> /\ ~RequestsOf(b)[Len(RequestsOf(b))].ok

(* C4 as stated: the walker guards against cycles, so on every finite set   *)
(* of pages and every assignment of next links, chains that lead back to   *)
(* an earlier page after two or more steps included, fetch_book_content    *)
(* reaches Done or Failed after finitely many fetches.  The walker keeps   *)
(* no memory of the pages it has seen: the page it fetches next depends on *)
(* the current URL alone.  So if it ends on every chain, no walk requests  *)
(* a URL a second time: a walk that is back at a URL it has fetched goes   *)
(* round for ever while the fetches succeed.                               *)
C4_EveryWalkEnds ==
    \A i, j \in 1..Len(RequestsOf(idx)) :
        RequestsOf(idx)[i].url = RequestsOf(idx)[j].url => i = j

(* C4 amended: the walker guards against a next link that resolves to the  *)
(* current URL only.  Whenever the chain of next links from the book's     *)
(* first page does not lead back to an earlier page after two or more      *)
(* steps, the walk reaches Done or Failed, after at most as many fetches   *)
(* as the site has URLs.                                                   *)
C4_WalkEndsUnlessLongCycle ==
    /\ []((g_pc = "walking" /\ ChainEnds(books[idx], NumUrls)) =>
             Len(RequestsOf(idx)) <= NumUrls)
    /\ (g_pc = "walking" /\ ChainEnds(books[idx], NumUrls))
           ~> (w_pc \in {"Done", "Failed"})

\* a walk over two pages that ended at a page linking to itself
C4_Witness ==
    /\ g_pc = "walking"
    /\ w_pc = "Done"
    /\ ChainEnds(books[idx], NumUrls)
    /\ Len(content_blocks) = 2
    /\ NextUrl(current_url) = current_url

(* C5: when the first qualifying next link of the current page resolves to *)
(* the current page's own URL, the walker fetches no further page and goes *)
(* to Done in that same step; when the book's first page links to itself,  *)
(* this page is requested exactly once and the result is exactly its       *)
(* content.                                                                *)
C5_SelfLinkEndsTheWalk ==
    /\ [][(g_pc = "walking" /\ w_pc = "advance" /\ NextUrl(current_url) = current_url)
             => (w_pc' = "Done" /\ requests' = requests)]_vars
    /\ [](\A b \in 1..Len(books) :
            NextUrl(books[b]) = books[b] =>
                /\ Len(RequestsOf(b)) <= 1
                /\ (Len(records) >= b /\ ~WalkFailed(b)) =>
                      records[b].Sentences
                          = split_into_sentences(strip(page_text(books[b].path))))
    /\ []((g_pc = "walking" /\ w_pc = "Done" /\ NextUrl(books[idx]) = books[idx]) =>
            content_blocks = <<strip(page_text(books[idx].path))>>)

\* the first page of a book linked to itself, was fetched, and the book is done
C5_Witness ==
    /\ Len(records) >= 1
    /\ NextUrl(books[1]) = books[1]
    /\ Len(RequestsOf(1)) = 1
    /\ RequestsOf(1)[1].ok

(* C6: when the fetch of the n-th page of a chain fails, fetch_book_content *)
(* stops and returns exactly the content of pages 1..n-1 in visit order    *)
(* (empty when n = 1), nothing of the failing page; the book still gets    *)
(* its record and the following books are processed.                       *)
C6_FailedFetchKeepsEarlierPages ==
    /\ (g_pc = "walking" /\ w_pc = "Failed") =>
          content_blocks = ChainTexts(books[idx], Len(RequestsOf(idx)) - 1)
    /\ \A b \in 1..Len(records) :
          /\ records[b].ID = b
          /\ records[b].BookLink = books[b]
          /\ WalkFailed(b) =>
                records[b].Sentences
                    = split_into_sentences(
                          strip(JoinWith(ChainTexts(books[b], Len(RequestsOf(b)) - 1), <<" ">>)))
    /\ g_pc = "finished" => Len(records) = Len(books)

\* the first of two books failed at its second page, and the second book was fetched
C6_Witness ==
    /\ g_pc = "finished"
    /\ Len(books) = 2
    /\ Len(RequestsOf(1)) = 2
    /\ WalkFailed(1)
    /\ records[1].Sentences # <<>>
    /\ RequestsOf(2) # <<>>
    /\ RequestsOf(2)[1].ok

----------------------------------------------------------------------------
(* Document order and frames, for the claims about the sanitizer *)

\* the set of paths of a tree, the root's <<>> included
PathSet(tree) ==
    LET d == descendants(tree, <<>>, 1)
    IN  {<<>>} \cup {d[k] : k \in 1..Len(d)}

\* p comes before q in document order
DocBefore(p, q) ==
    \/ Len(p) < Len(q) /\ SubSeq(q, 1, Len(p)) = p
    \/ \E k \in 1..Len(p) :
          /\ k <= Len(q)
          /\ SubSeq(p, 1, k - 1) = SubSeq(q, 1, k - 1)
          /\ p[k] < q[k]

\* a node without its children
Label(node) ==
    [name |-> node.name, class |-> node.class, id |-> node.id, href |-> node.href,
     string |-> node.string]

\* is the node the marker remove_after_div_class / remove_after_hr looks for
IsMarker(node, op) ==
    IF op = "remove_after_hr" THEN node.name = "hr"
    ELSE node.name = "div" /\ "mw-inputbox-centered" \in node.class

MarkerPaths(tree, op) == {p \in PathSet(tree) \ {<<>>} : IsMarker(NodeAt(tree, p), op)}

\* p is m, a later sibling of m, or below one of them
AtOrAfter(p, m) ==
    /\ Len(p) >= Len(m)
    /\ SubSeq(p, 1, Len(m) - 1) = Front(m)
    /\ p[Len(m)] >= m[Len(m)]

\* the indexes of the direct children of the container that are markers
DirectMarkers(tree, op) ==
    {i \in 1..Len(NodeAt(tree, parser_div(tree)).contents) :
        IsMarker(NodeAt(tree, parser_div(tree)).contents[i], op)}

Min(S) == CHOOSE x \in S : \A y \in S : x <= y
Max(S) == CHOOSE x \in S : \A y \in S : y <= x

(* C8: extract_content collects, in document order, the non-empty text of   *)
(* the heading and paragraph direct children of the main content container *)
(* that come before the first direct child carrying the stop-marker class, *)
(* whatever tag that child has; the marker child and every child after it  *)
(* contribute nothing.                                                     *)
RECURSIVE BlocksBeforeMarker(_, _)
BlocksBeforeMarker(kids, i) ==
    IF i > Len(kids) \/ "mw-inputbox-centered" \in kids[i].class THEN <<>>
    ELSE (IF kids[i].name \in HeadingsAndP /\ get_text(kids[i]) # <<>>
          THEN <<get_text(kids[i])>> ELSE <<>>)
         \o BlocksBeforeMarker(kids, i + 1)

C8_StopsAtMarkerOfAnyTag ==
    (dom_op = "extract_content" /\ parser_div(soup) # NoPath) =>
        content = BlocksBeforeMarker(NodeAt(soup, parser_div(soup)).contents, 1)

(* C9 as stated: remove_after_div_class and remove_after_hr locate the      *)
(* first marker among the direct children of the main content container    *)
(* and remove exactly that child and every later sibling at that level;    *)
(* everything else is unchanged, and with no marker the tree is unchanged. *)
C9_TruncatesAtContainerLevel ==
    (dom_op \in {"remove_after_div_class", "remove_after_hr"}) =>
        IF MarkerPaths(before, dom_op) = {} THEN soup = before
        ELSE (parser_div(before) # NoPath /\ DirectMarkers(before, dom_op) # {}) =>
                soup = SetContents(before, parser_div(before),
                          SubSeq(NodeAt(before, parser_div(before)).contents, 1,
                                 Min(DirectMarkers(before, dom_op)) - 1))

(* C9 amended: remove_after_div_class and remove_after_hr locate the first *)
(* marker in document order anywhere in the document and remove exactly    *)
(* that node and every later sibling at the marker's own level, with their *)
(* subtrees; every other node stays where it is with its tag, classes, id  *)
(* and text, and with no marker the tree is unchanged.                     *)
C9_TruncatesAtFirstMarkerAnywhere ==
    (dom_op \in {"remove_after_div_class", "remove_after_hr"}) =>
        LET markers == MarkerPaths(before, dom_op)
            kept    == PathSet(soup)
        IN  IF markers = {} THEN soup = before
            ELSE LET m == CHOOSE x \in markers : \A y \in markers \ {x} : DocBefore(x, y)
                 IN  /\ kept = {p \in PathSet(before) : ~AtOrAfter(p, m)}
                     /\ \A p \in kept : Label(NodeAt(soup, p)) = Label(NodeAt(before, p))

\* a marker nested below a direct child of the container was the first marker,
\* and the call removed something
C9_Witness ==
    /\ dom_op = "remove_after_div_class"
    /\ soup # before
    /\ parser_div(before) # NoPath
    /\ \E m \in MarkerPaths(before, dom_op) :
          /\ \A y \in MarkerPaths(before, dom_op) \ {m} : DocBefore(m, y)
          /\ Len(m) = Len(parser_div(before)) + 2
          /\ SubSeq(m, 1, Len(parser_div(before))) = parser_div(before)

----------------------------------------------------------------------------
(* C7: in every tree returned by parse_links, at every nesting depth, no    *)
(* node listed under 'subchapters' of a node has a fragment-stripped URL   *)
(* equal to the fragment-stripped URL of that parent node.                 *)
RECURSIVE NoSelfLinkBelow(_)
NoSelfLinkBelow(node) ==
    \A k \in 1..Len(node.subchapters) :
        /\ node.subchapters[k].href.path # node.href.path
        /\ NoSelfLinkBelow(node.subchapters[k])

C7_NoChildLinksToParentDocument ==
    toc_pc = "parsed" => \A k \in 1..Len(links) : NoSelfLinkBelow(links[k])

\* three levels: /A, below it a link to fragment g of the TOC page, and below
\* that an <li> whose link is the TOC page itself, which was skipped
C7_Witness ==
    /\ toc_pc = "parsed"
    /\ Len(links) = 1
    /\ links[1].href = Url("/A", "")
    /\ Len(links[1].subchapters) = 1
    /\ links[1].subchapters[1].href = Url("/toc", "g")
    /\ links[1].subchapters[1].subchapters = <<>>
    /\ \E p \in PathSet(list_element) :
          /\ Len(p) = 5
          /\ NodeAt(list_element, p).name = "li"
          /\ NodeAt(list_element, p).contents[1].href = NoHref

----------------------------------------------------------------------------
(* C10: split_into_sentences is stable under re-segmentation: segmenting   *)
(* the sentences rejoined with a terminator each and whitespace between    *)
(* them gives the same sentences again; no returned sentence is empty, so  *)
(* a text that ends in a terminator yields no empty last sentence.         *)
C10_ResegmentationStable ==
    /\ seg_pc = "resplit" => sentences = first_sentences
    /\ seg_pc \in {"split", "resplit"} =>
          \A k \in 1..Len(sentences) : sentences[k] # <<>>

\* a text of two sentences that ends in a terminator has gone round
C10_Witness ==
    /\ seg_pc = "resplit"
    /\ Len(first_sentences) = 2
    /\ paragraph[Len(paragraph)] \in Terminators

----------------------------------------------------------------------------
(* The chapters of a TOC page *)

\* a string of whitespace only
IsBlankString(node) == node.name = "None" /\ strip(node.string) = <<>>

\* child j comes right after child i: nothing but blank strings lies between
ImmediatelyFollows(kids, i, j) ==
    /\ i < j
    /\ \A m \in (i + 1)..(j - 1) : IsBlankString(kids[m])

\* the container of the TOC page in the state
TocDiv == NodeAt(toc_soup, toc_div_of(toc_soup))

\* the header divs below the container that hold a heading tag
HeadersWithHeading ==
    {p \in PathSet(TocDiv) \ {<<>>} :
        /\ NodeAt(TocDiv, p).name = "div"
        /\ "mw-heading" \in NodeAt(TocDiv, p).class
        /\ \E q \in PathSet(NodeAt(TocDiv, p)) \ {<<>>} :
              NodeAt(NodeAt(TocDiv, p), q).name \in Headings}

\* the title of such a header: the text of its first heading tag
TitleOf(p) ==
    LET hd == NodeAt(TocDiv, p)
        hs == {q \in PathSet(hd) \ {<<>>} : NodeAt(hd, q).name \in Headings}
    IN  get_text(NodeAt(hd, CHOOSE q \in hs : \A r \in hs : r = q \/ DocBefore(q, r)))

\* the later siblings of the node at p that are lists
LaterLists(p) ==
    {j \in (p[Len(p)] + 1)..Len(NodeAt(TocDiv, Front(p)).contents) :
        NodeAt(TocDiv, Front(p)).contents[j].name \in {"ol", "ul"}}

(* C11 as stated: every chapter crawl_wikijunior_toc returns consists of a  *)
(* heading and the list that immediately follows that heading; a heading    *)
(* that is not immediately followed by a list forms no chapter, no list is  *)
(* attributed to more than one chapter, and no returned chapter has the     *)
(* title "Zusammenfassung des Projekts".                                    *)
C11_ChapterIsHeadingAndNextList ==
    chap_pc = "returned" =>
        /\ \A k \in 1..Len(list_tags) :
              LET h == list_tags[k].header_div
                  l == list_tags[k].list_tag
              IN  /\ Front(l) = Front(h)
                  /\ ImmediatelyFollows(NodeAt(TocDiv, Front(h)).contents,
                                        h[Len(h)], l[Len(l)])
        /\ \A k, m \in 1..Len(list_tags) :
              list_tags[k].list_tag = list_tags[m].list_tag => k = m
        /\ \A k \in 1..Len(chapters) : chapters[k].chapter # Zusammenfassung

(* C11 amended: every chapter crawl_wikijunior_toc returns consists of a    *)
(* heading and the first list among the later siblings of that heading's    *)
(* header div, whatever lies between the two, so that one list can belong   *)
(* to several chapters; the chapters are those of the header divs that hold *)
(* a heading with another title than "Zusammenfassung des Projekts" and     *)
(* have a later sibling list, in document order; a header without a later   *)
(* sibling list forms no chapter.                                           *)
C11_ChapterIsHeadingAndLaterList ==
    chap_pc = "returned" =>
        IF toc_div_of(toc_soup) = NoPath THEN chapters = <<>> /\ list_tags = <<>>
        ELSE
        LET forming == {p \in HeadersWithHeading :
                           TitleOf(p) # Zusammenfassung /\ LaterLists(p) # {}}
        IN  /\ Len(chapters) = Cardinality(forming)
            /\ Len(list_tags) = Len(chapters)
            /\ \A k \in 1..Len(chapters) :
                  LET h == list_tags[k].header_div
                  IN  /\ h \in forming
                      /\ list_tags[k].list_tag = Append(Front(h), Min(LaterLists(h)))
                      /\ chapters[k].chapter = TitleOf(h)
                      /\ chapters[k].chapter # Zusammenfassung
                      /\ chapters[k].links =
                            parse_links(NodeAt(TocDiv, list_tags[k].list_tag),
                                        toc_url, NoParent)
            /\ \A k \in 1..(Len(list_tags) - 1) :
                  DocBefore(list_tags[k].header_div, list_tags[k + 1].header_div)

\* two headings share one list, which follows the second of them
C11_Witness ==
    /\ chap_pc = "returned"
    /\ Len(chapters) = 2
    /\ list_tags[1].list_tag = list_tags[2].list_tag
    /\ list_tags[1].header_div # list_tags[2].header_div
    /\ chapters[1].links # <<>>

----------------------------------------------------------------------------
(* The worker pools *)

\* the units being processed at this moment, in either pool
RunningWiki == {i \in 1..Len(futures) : futures[i].state = "running"}
RunningJunior == {i \in 1..Len(tasks) : tasks[i].state = "running"}

(* C12: whatever crawl family the CLI starts with --max_workers W, at every *)
(* moment of the crawl at most W fetch-extract units are being processed    *)
(* at once (the pages of a book are fetched by one sequential loop).        *)
C12_AtMostMaxWorkersAtOnce ==
    /\ wiki_pc = "pool" => Cardinality(RunningWiki) <= max_workers
    /\ j_pc = "pool" => Cardinality(RunningJunior) <= cli_max_workers

----------------------------------------------------------------------------
(* The link tree of a TOC page and the records made of it *)

\* the nodes of a list of link trees in pre-order, every nesting depth included
RECURSIVE PreOrder(_, _)
PreOrder(link_list, k) ==
    IF k > Len(link_list) THEN <<>>
    ELSE <<[text |-> link_list[k].text, href |-> link_list[k].href]>>
         \o PreOrder(link_list[k].subchapters, 1)
         \o PreOrder(link_list, k + 1)

\* the nodes of all chapters, each with its chapter title
RECURSIVE AllNodes(_, _)
AllNodes(structure, k) ==
    IF k > Len(structure) THEN <<>>
    ELSE LET nodes == PreOrder(structure[k].links, 1)
         IN  [n \in 1..Len(nodes) |->
                 [Chapter |-> structure[k].chapter, LinkText |-> nodes[n].text,
                  WikiLink |-> nodes[n].href]]
             \o AllNodes(structure, k + 1)

\* the nesting depth of a list of link trees
RECURSIVE Depth(_)
Depth(link_list) ==
    IF link_list = <<>> THEN 0
    ELSE 1 + Max({Depth(link_list[k].subchapters) : k \in 1..Len(link_list)})

(* C14: in crawl_wikijunior_toc_and_content every node of the link tree     *)
(* parse_links returned, at every nesting depth, is submitted exactly once  *)
(* and yields exactly one result record, and the records are in the         *)
(* pre-order of the tree, whatever order the fetches complete in.           *)
C14_EveryNodeOnceInPreOrder ==
    /\ j_pc \in {"pool", "finished"} =>
          [k \in 1..Len(tasks) |->
              [Chapter |-> tasks[k].chapter_title, LinkText |-> tasks[k].link_text,
               WikiLink |-> tasks[k].url]] = AllNodes(toc_structure, 1)
    /\ j_pc = "finished" =>
          [k \in 1..Len(junior_df) |->
              [Chapter |-> junior_df[k].Chapter, LinkText |-> junior_df[k].LinkText,
               WikiLink |-> junior_df[k].WikiLink]] = AllNodes(toc_structure, 1)

----------------------------------------------------------------------------
(* The listing phase of crawl_klexikon / crawl_miniklexikon *)

\* the loop has left through `if max_pages and page_count >= max_pages: break`
LeftByLimit ==
    /\ wiki_pc # "listing"
    /\ max_pages \notin {NoLimit, 0}
    /\ page_count >= max_pages

\* the get_soup calls the listing loop has made: page_count counts the pages that
\* had a "nächste Seite" link; the page without one and the page whose fetch
\* failed come on top
CategoryFetches ==
    IF wiki_pc = "listing" \/ LeftByLimit THEN page_count ELSE page_count + 1

\* the article URLs of the first k category pages, in page order
RECURSIVE UrlsOfPages(_)
UrlsOfPages(k) ==
    IF k = 0 THEN <<>>
    ELSE UrlsOfPages(k - 1) \o article_urls(site, category_pages[k])

(* C13: for every integer N >= 0 given as max_pages and every chain of      *)
(* category pages, the listing phase fetches at most N category pages and   *)
(* collects article URLs only from those pages, in page order (stated of    *)
(* the runs in which no fetch of a category page fails).                    *)
C13_AtMostMaxPagesListed ==
    (wiki_pc \notin {"idle", "crashed"} /\ max_pages # NoLimit) =>
        /\ CategoryFetches <= max_pages
        /\ \E k \in 0..max_pages :
              /\ k <= Len(category_pages)
              /\ all_article_urls = UrlsOfPages(k)

====
